---- MODULE Spec2Model ----
(***************************************************************************)
(* Model of ModelBasedAdapter.create_simulation_volume                     *)
(* (simpa/core/simulation_modules/volume_creation_module/                  *)
(*  model_based_adapter.py): the priority-ordered pass that composes the   *)
(* structures' partial-volume fractions into the per-voxel property        *)
(* fields, followed by the validation of the cumulative fractions.         *)
(*                                                                         *)
(* Volume fractions are fixed-point numbers in units of 1/Scale, so that   *)
(* the fraction 1.0 is the integer Scale and 0.6 is 6 when Scale = 10.     *)
(* Tensors over the voxel grid are functions on Voxels.  The arithmetic is *)
(* exact; the float32 of the code agrees with it where the pass compares   *)
(* with 1: a sum that tests <= 1 is stored as tested, and a clamped voxel  *)
(* is filled with g + (1 - g), which rounds to 1.                          *)
(*                                                                         *)
(* The final .cpu().numpy().astype(float64) widens without changing a      *)
(* value and is part of Finish.  The set-up of the deformation settings    *)
(* (lines 50-60) touches none of the fields and is left out.               *)
(***************************************************************************)
EXTENDS Integers, Sequences, FiniteSets

\* ------------------------------------------------------------------ bounds
NVoxels == 2
MaxStructures == 3
Scale == 10

\* The tolerance 1e-5 of the validation, as the fraction 1 / TolDenominator.
TolDenominator == 100000

Voxels == 1..NVoxels
Levels == {0, 3, 6, Scale}

Zeros == [v \in Voxels |-> 0]

Min(a, b) == IF a <= b THEN a ELSE b

Abs(a) == IF a < 0 THEN 0 - a ELSE a

\* ------------------------------------------------- structures (the inputs)
\* A property value as properties_for_wavelength hands it out: tagged with
\* its Python type; "scalar" carries a number, "tensor" a per-voxel field.
PropertyValue(t, x, f) == [type |-> t, scalar |-> x, tensor |-> f]

None == PropertyValue("NoneType", 0, Zeros)

SEGMENTATION == "seg"

\* volumes.keys(): one continuous field and the segmentation field.
KeyOrder == <<"mua", SEGMENTATION>>

Keys == {KeyOrder[i] : i \in 1..Len(KeyOrder)}

\* The i-th structure of the pass carries its own segmentation class i, or none.
SegmentationValues(i) == {None, PropertyValue("int", i, Zeros)}

ContinuousValues ==
    {None,
     PropertyValue("float", 2, Zeros),
     PropertyValue("Tensor", 0, [v \in Voxels |-> v + 1]),
     PropertyValue("str", 0, Zeros)}

Structures(i) ==
    [geometrical_volume : [Voxels -> Levels],
     mua : ContinuousValues,
     seg : SegmentationValues(i)]

structure_properties(structure) == [key \in Keys |-> structure[key]]

\* ------------------------------------------------------------------- state
VARIABLES
    pc,                       \* "loop", "returned", "ValueError", "AssertionError"
    processed,                \* the structures the loop has taken so far, in order
    volumes,                  \* key -> per-voxel field
    global_volume_fractions,  \* cumulative occupancy
    max_added_fractions,      \* largest fraction applied to the segmentation
    added_volume_fraction,    \* loop local of the last iteration
    mask,                     \* loop local of the last iteration
    message                   \* text of the raised exception, <<>> if none

vars == <<pc, processed, volumes, global_volume_fractions, max_added_fractions,
          added_volume_fraction, mask, message>>

\* ------------------------------------------------- one loop iteration, pure
\* mask = (structure_volume_fractions > 0) & (global_volume_fractions < 1)
Mask(g, s) == [v \in Voxels |-> s[v] > 0 /\ g[v] < Scale]

\* `1 & mask`: & binds tighter than <=, so the selector of the first
\* assignment is  added_volume_fraction <= (1 & mask).
OneAnd(b) == IF b THEN 1 ELSE 0

\* added_volume_fraction[added_volume_fraction <= 1 & mask] = structure_volume_fractions[...]
SelectAtMostOne(g, s, m) ==
    [v \in Voxels |->
        IF g[v] + s[v] <= Scale * OneAnd(m[v]) THEN s[v] ELSE g[v] + s[v]]

\* Faults of the clamp: the branch left out; the larger of the two taken.
ClampMoreThanOne_Missing(a, g, s) == a

ClampMoreThanOne_Max(a, g, s) ==
    [v \in Voxels |-> IF a[v] > Scale THEN s[v] ELSE a[v]]

\* the branch on selector_more_than_1
ClampMoreThanOne(a, g, s) ==
    [v \in Voxels |-> IF a[v] > Scale THEN Min(Scale - g[v], s[v]) ELSE a[v]]

AddedVolumeFraction(g, s) == ClampMoreThanOne(SelectAtMostOne(g, s, Mask(g, s)), g, s)

\* Faults of the segmentation selector: the mask forgotten; the last claim
\* always winning; a comparison that is not strict.
SegmentationSelector_Unmasked(a, mx, m) == [v \in Voxels |-> a[v] > mx[v]]

SegmentationSelector_LastWins(a, mx, m) == [v \in Voxels |-> a[v] > 0 /\ m[v]]

SegmentationSelector_NotStrict(a, mx, m) == [v \in Voxels |-> a[v] >= mx[v] /\ m[v]]

\* added_fraction_greater_than_any_added_fraction & mask
SegmentationSelector(a, mx, m) == [v \in Voxels |-> a[v] > mx[v] /\ m[v]]

AssignWhere(field, sel, value) ==
    [v \in Voxels |-> IF sel[v] THEN value[v] ELSE field[v]]

\* Fault of the accumulation: = in place of +=.
AddWhere_Overwrite(field, m, a, value) ==
    [v \in Voxels |-> IF m[v] THEN a[v] * value[v] ELSE field[v]]

\* volumes[key][mask] += added_volume_fraction[mask] * value[mask]
AddWhere(field, m, a, value) ==
    [v \in Voxels |-> IF m[v] THEN field[v] + a[v] * value[v] ELSE field[v]]

IsTensor(p) == p.type = "Tensor"

\* Fault of the type test: every value taken for a number.
IsScalar_AnyType(p) == TRUE

IsScalar(p) == p.type \in {"float", "float64", "int", "int64"}

ErrorText(p) == <<"Unsupported type of structure property. ", "Was ", p.type, ".">>

\* Fault of the key loop: an absent value clears the field where the structure is active.
ApplyKey_NoneZeroes(st, key, p, a, m) ==
    IF p.type = "NoneType" THEN
        [st EXCEPT !.volumes[key] = [v \in Voxels |-> IF m[v] THEN 0 ELSE @[v]]]
    ELSE IF key = SEGMENTATION THEN
        LET sel == SegmentationSelector(a, st.max_added_fractions, m) IN
        [st EXCEPT
            !.volumes[key] = AssignWhere(@, sel, [v \in Voxels |-> p.scalar]),
            !.max_added_fractions = AssignWhere(@, sel, a)]
    ELSE IF IsTensor(p) THEN
        [st EXCEPT !.volumes[key] = AddWhere(@, m, a, p.tensor)]
    ELSE IF IsScalar(p) THEN
        [st EXCEPT !.volumes[key] = AddWhere(@, m, a, [v \in Voxels |-> p.scalar])]
    ELSE [st EXCEPT !.message = ErrorText(p)]

\* The body of `for key in volumes.keys()` for one key, on the triple
\* [volumes, max_added_fractions, message].
ApplyKey(st, key, p, a, m) ==
    IF p.type = "NoneType" THEN st
    ELSE IF key = SEGMENTATION THEN
        LET sel == SegmentationSelector(a, st.max_added_fractions, m) IN
        [st EXCEPT
            !.volumes[key] = AssignWhere(@, sel, [v \in Voxels |-> p.scalar]),
            !.max_added_fractions = AssignWhere(@, sel, a)]
    ELSE IF IsTensor(p) THEN
        [st EXCEPT !.volumes[key] = AddWhere(@, m, a, p.tensor)]
    ELSE IF IsScalar(p) THEN
        [st EXCEPT !.volumes[key] = AddWhere(@, m, a, [v \in Voxels |-> p.scalar])]
    ELSE [st EXCEPT !.message = ErrorText(p)]

RECURSIVE ApplyKeys(_, _, _, _, _)
ApplyKeys(st, i, props, a, m) ==
    IF i > Len(KeyOrder) \/ st.message # <<>> THEN st
    ELSE ApplyKeys(ApplyKey(st, KeyOrder[i], props[KeyOrder[i]], a, m), i + 1, props, a, m)

\* Fault of the cumulative update: the mask forgotten.
UpdateGlobal_Unmasked(g, m, a) == [v \in Voxels |-> g[v] + a[v]]

\* Fault of the cumulative update: = in place of +=.
UpdateGlobal_Assign(g, m, a) == [v \in Voxels |-> IF m[v] THEN a[v] ELSE g[v]]

\* global_volume_fractions[mask] += added_volume_fraction[mask]
UpdateGlobal(g, m, a) == [v \in Voxels |-> IF m[v] THEN g[v] + a[v] ELSE g[v]]

\* torch.abs(g[g > 1]) < 1e-5).any()
ValidationFails(g) ==
    \E v \in Voxels : g[v] > Scale /\ Abs(g[v]) * TolDenominator < Scale

\* ----------------------------------------------------------------- actions
Init ==
    /\ pc = "loop"
    /\ processed = <<>>
    /\ volumes = [key \in Keys |-> Zeros]
    /\ global_volume_fractions = Zeros
    /\ max_added_fractions = Zeros
    /\ added_volume_fraction = Zeros
    /\ mask = [v \in Voxels |-> FALSE]
    /\ message = <<>>

\* One iteration of `for structure in priority_sorted_structures(...)`.
ProcessStructure(structure) ==
    /\ pc = "loop"
    /\ Len(processed) < MaxStructures
    /\ LET s == structure.geometrical_volume
           g == global_volume_fractions
           m == Mask(g, s)
           a == AddedVolumeFraction(g, s)
           st == ApplyKeys([volumes |-> volumes,
                            max_added_fractions |-> max_added_fractions,
                            message |-> <<>>],
                           1, structure_properties(structure), a, m)
       IN /\ processed' = Append(processed, structure)
          /\ mask' = m
          /\ added_volume_fraction' = a
          /\ volumes' = st.volumes
          /\ max_added_fractions' = st.max_added_fractions
          /\ message' = st.message
          /\ IF st.message # <<>>
             THEN /\ pc' = "ValueError"
                  /\ UNCHANGED global_volume_fractions
             ELSE /\ pc' = "loop"
                  /\ global_volume_fractions' = UpdateGlobal(g, m, a)

\* The loop is exhausted: validation, conversion and return.
Finish ==
    /\ pc = "loop"
    /\ IF ValidationFails(global_volume_fractions)
       THEN /\ pc' = "AssertionError"
            /\ message' = <<"Invalid Molecular composition! The volume fractions of all molecules must be",
                            "exactly 100%!">>
       ELSE /\ pc' = "returned"
            /\ UNCHANGED message
    /\ UNCHANGED <<processed, volumes, global_volume_fractions, max_added_fractions,
                   added_volume_fraction, mask>>

Next ==
    \/ \E structure \in Structures(Len(processed) + 1) : ProcessStructure(structure)
    \/ Finish

Spec == Init /\ [][Next]_vars

\* The validation on its own: any cumulative field, the loop already exhausted.
InitValidate ==
    /\ pc = "loop"
    /\ processed = <<>>
    /\ volumes = [key \in Keys |-> Zeros]
    /\ global_volume_fractions \in [Voxels -> 0..(2 * Scale)]
    /\ max_added_fractions = Zeros
    /\ added_volume_fraction = Zeros
    /\ mask = [v \in Voxels |-> FALSE]
    /\ message = <<>>

SpecValidate == InitValidate /\ [][Finish]_vars

\* ------------------------------------------------- vocabulary of the claims
\* The structure a loop iteration has just taken, and its fields.
Taken == processed'[Len(processed')]

Iteration == pc = "loop" /\ Len(processed') = Len(processed) + 1

CompleteIteration == Iteration /\ pc' = "loop"

\* "active" and "newly-claimed fraction" of the composition rule, for a
\* cumulative occupancy c and a structure occupancy o of one voxel.
Active(c, o) == o > 0 /\ c < Scale

Claimed(c, o) == IF c + o <= Scale THEN o ELSE Min(Scale - c, o)

Carries(structure, key) == structure[key].type # "NoneType"

UnchangedAt(v) ==
    /\ global_volume_fractions'[v] = global_volume_fractions[v]
    /\ max_added_fractions'[v] = max_added_fractions[v]
    /\ \A key \in Keys : volumes'[key][v] = volumes[key][v]

\* The structures the pass has processed completely.
NumDone == IF pc = "ValueError" THEN Len(processed) - 1 ELSE Len(processed)

Done == 1..NumDone

\* ------------------------------------------------------------------ claims
\* C1: after each structure has been processed, and at the end of the pass,
\* the cumulative occupancy of every voxel lies in [0, 1].
C1_CumulativeInUnitInterval ==
    \A v \in Voxels :
        global_volume_fractions[v] >= 0 /\ global_volume_fractions[v] <= Scale

\* The occupancies offered to a voxel add up to more than 1 and the pass returned.
C1_Witness ==
    /\ pc = "returned"
    /\ Len(processed) = 2
    /\ processed[1].geometrical_volume[1] + processed[2].geometrical_volume[1] > Scale
    /\ global_volume_fractions[1] = Scale

\* C2: at every active voxel the newly-claimed fraction is the structure's
\* occupancy when cumulative + occupancy <= 1 and min(1 - cumulative,
\* occupancy) otherwise, and the cumulative occupancy grows by exactly it.
C2_NewlyClaimedFraction ==
    [][CompleteIteration =>
        \A v \in Voxels :
            LET c == global_volume_fractions[v]
                o == Taken.geometrical_volume[v]
            IN Active(c, o) =>
                /\ added_volume_fraction'[v] =
                       (IF c + o <= Scale THEN o ELSE Min(Scale - c, o))
                /\ global_volume_fractions'[v] = c + added_volume_fraction'[v]]_vars

\* Occupancy 0.6 after a cumulative of 0.6 claims 0.4 and fills the voxel.
C2_Witness ==
    /\ pc = "loop"
    /\ Len(processed) = 2
    /\ processed[1].geometrical_volume[1] = 6
    /\ processed[2].geometrical_volume[1] = 6
    /\ mask[1]
    /\ Scale - 6 > 0
    /\ added_volume_fraction[1] = Scale - 6
    /\ global_volume_fractions[1] = Scale

\* C3: once a voxel's cumulative occupancy is 1, every later structure
\* leaves its cumulative occupancy, maximum-applied fraction, segmentation
\* label and continuous values unchanged.
C3_FullVoxelClosed ==
    [][\A v \in Voxels : global_volume_fractions[v] = Scale => UnchangedAt(v)]_vars

\* A and B both occupy voxel 1 fully, A first: the label is A's and B added nothing.
C3_Witness ==
    /\ pc = "returned"
    /\ Len(processed) = 2
    /\ processed[1].geometrical_volume[1] = Scale
    /\ processed[2].geometrical_volume[1] = Scale
    /\ Carries(processed[1], SEGMENTATION) /\ Carries(processed[2], SEGMENTATION)
    /\ Carries(processed[1], "mua") /\ Carries(processed[2], "mua")
    /\ processed[1].mua.type = "float" /\ processed[2].mua.type = "Tensor"
    /\ volumes[SEGMENTATION][1] = processed[1].seg.scalar
    /\ volumes["mua"][1] = Scale * processed[1].mua.scalar

\* ---- the composition rule unfolded over the structures processed so far
RECURSIVE CumulativeAfter(_, _)
\* Cumulative occupancy of voxel v after the first k structures.
CumulativeAfter(k, v) ==
    IF k = 0 THEN 0
    ELSE LET c == CumulativeAfter(k - 1, v)
             o == processed[k].geometrical_volume[v]
         IN IF Active(c, o) THEN c + Claimed(c, o) ELSE c

\* Newly-claimed fraction of structure k at voxel v (0 where it is not active).
ClaimOf(k, v) ==
    LET c == CumulativeAfter(k - 1, v)
        o == processed[k].geometrical_volume[v]
    IN IF Active(c, o) THEN Claimed(c, o) ELSE 0

Labelled == {k \in Done : Carries(processed[k], SEGMENTATION)}

LabelOf(k) == processed[k].seg.scalar

ValueAt(p, v) == IF p.type = "Tensor" THEN p.tensor[v] ELSE p.scalar

RECURSIVE WeightedSum(_, _, _)
\* Sum over the first k structures that carry the key of claim times value.
WeightedSum(key, k, v) ==
    IF k = 0 THEN 0
    ELSE WeightedSum(key, k - 1, v) +
         (IF Carries(processed[k], key)
          THEN ClaimOf(k, v) * ValueAt(processed[k][key], v)
          ELSE 0)

\* C4 as stated: after the pass, at every voxel that a structure with a label
\* claimed a positive fraction of, the segmentation label is the label of a
\* structure whose claim is the largest of all processed structures.
C4_LabelOfLargestClaim ==
    pc = "returned" =>
        \A v \in Voxels :
            (\E k \in Labelled : ClaimOf(k, v) > 0) =>
                \E k \in Labelled :
                    /\ \A j \in Done : ClaimOf(j, v) <= ClaimOf(k, v)
                    /\ volumes[SEGMENTATION][v] = LabelOf(k)

\* C4 amended: the label is that of a structure whose claim is the largest
\* among the structures that carry a segmentation label.
C4_LabelOfLargestLabelledClaim ==
    pc = "returned" =>
        \A v \in Voxels :
            (\E k \in Labelled : ClaimOf(k, v) > 0) =>
                \E k \in Labelled :
                    /\ \A j \in Labelled : ClaimOf(j, v) <= ClaimOf(k, v)
                    /\ volumes[SEGMENTATION][v] = LabelOf(k)

\* A claims 0.3, then B claims 0.6 of voxel 1: the label is B's.
C4_Witness ==
    /\ pc = "returned"
    /\ Len(processed) = 2
    /\ Labelled = {1, 2}
    /\ ClaimOf(1, 1) = 3 /\ ClaimOf(2, 1) = 6
    /\ volumes[SEGMENTATION][1] = LabelOf(2)

\* C5 as stated: a cumulative field with a voxel above 1 by more than the
\* tolerance makes the validation raise, and nothing is returned.
C5_ValidationRaises ==
    (pc # "loop" /\ \E v \in Voxels :
        (global_volume_fractions[v] - Scale) * TolDenominator > Scale)
    => pc = "AssertionError"

\* C6: each voxel of a continuous field is the sum, over the structures that
\* carry the key, of newly-claimed fraction times value (scalar or per-voxel).
C6_ContinuousIsWeightedSum ==
    pc \in {"loop", "returned"} =>
        \A v \in Voxels : volumes["mua"][v] = WeightedSum("mua", Len(processed), v)

\* A scalar, a per-voxel and an absent value of the key, each structure
\* claiming part of voxel 1.
C6_Witness ==
    /\ pc = "returned"
    /\ Len(processed) = 3
    /\ processed[1].mua.type = "float"
    /\ processed[2].mua.type = "NoneType"
    /\ processed[3].mua.type = "Tensor"
    /\ \A k \in 1..3 : ClaimOf(k, 1) = 3
    /\ volumes["mua"][1] = 3 * processed[1].mua.scalar + 3 * processed[3].mua.tensor[1]

\* C7: a structure whose value for a key is absent leaves the field of that
\* key unchanged at every voxel.
C7_AbsentKeyUntouched ==
    [][Iteration =>
        \A key \in Keys :
            ~Carries(Taken, key) => volumes'[key] = volumes[key]]_vars

\* The second structure claims a voxel that already holds an accumulated
\* value and a label, and carries neither key.
C7_Witness ==
    /\ pc = "loop"
    /\ Len(processed) = 2
    /\ processed[1].mua.type = "float" /\ Carries(processed[1], SEGMENTATION)
    /\ ~Carries(processed[2], "mua") /\ ~Carries(processed[2], SEGMENTATION)
    /\ ClaimOf(1, 1) = 3 /\ ClaimOf(2, 1) = 6
    /\ mask[1]
    /\ volumes["mua"][1] = 3 * processed[1].mua.scalar
    /\ volumes[SEGMENTATION][1] = LabelOf(1)

InText(word) == \E i \in 1..Len(message) : message[i] = word

Unsupported(p) == p.type \notin {"NoneType", "Tensor", "float", "float64", "int", "int64"}

\* C8 as stated: the ValueError names the offending key and the type.
C8_ErrorNamesKeyAndType ==
    pc = "ValueError" =>
        /\ InText("mua")
        /\ InText(processed[Len(processed)].mua.type)

\* C8 amended: a present continuous value that is neither tensor nor number
\* ends the pass at once in a ValueError whose text names the type of the
\* value; nothing follows it and no volumes are returned.
C8_UnsupportedTypeAborts ==
    [][/\ pc # "ValueError"
       /\ (Iteration /\ Unsupported(Taken.mua)) =>
              (pc' = "ValueError" /\
               \E i \in 1..Len(message') : message'[i] = Taken.mua.type)
       /\ (pc' = "ValueError") => (Iteration /\ Unsupported(Taken.mua))]_vars

\* The second structure carries a string as continuous value.
C8_Witness ==
    /\ pc = "ValueError"
    /\ Len(processed) = 2
    /\ processed[2].mua.type = "str"
    /\ processed[2].geometrical_volume[1] > 0
    /\ InText("str")

\* C9: a structure changes nothing at a voxel where its occupancy is 0, and
\* for structures with pairwise disjoint regions each voxel's continuous
\* value is occupancy times value of the one structure occupying it.
Occupying(v) == {k \in 1..Len(processed) : processed[k].geometrical_volume[v] > 0}

Disjoint == \A v \in Voxels : Cardinality(Occupying(v)) <= 1

C9_ZeroOccupancyNoContribution ==
    /\ [][Iteration =>
            \A v \in Voxels : Taken.geometrical_volume[v] = 0 => UnchangedAt(v)]_vars
    /\ []((pc \in {"loop", "returned"} /\ Disjoint) =>
            \A v \in Voxels : \A k \in Occupying(v) :
                volumes["mua"][v] =
                    IF Carries(processed[k], "mua")
                    THEN processed[k].geometrical_volume[v] * ValueAt(processed[k].mua, v)
                    ELSE 0)

\* Two structures on disjoint voxels, the second voxel having room left
\* while the first structure passes it by.
C9_Witness ==
    /\ pc = "returned"
    /\ Len(processed) = 3
    /\ processed[1].geometrical_volume = [v \in Voxels |-> IF v = 1 THEN 6 ELSE 0]
    /\ processed[2].geometrical_volume = [v \in Voxels |-> IF v = 2 THEN 3 ELSE 0]
    /\ processed[3].geometrical_volume = Zeros
    /\ processed[1].mua.type = "float" /\ processed[2].mua.type = "Tensor"
    /\ processed[3].mua.type = "float"
    /\ volumes["mua"][1] = 6 * processed[1].mua.scalar
    /\ volumes["mua"][2] = 3 * processed[2].mua.tensor[2]

\* C10: a structure carrying a label overwrites label and maximum-applied
\* fraction of a voxel exactly when the voxel is active and its newly-claimed
\* fraction is strictly greater than the stored maximum; otherwise both stay,
\* and the maximum never decreases.
C10_StrictlyLargerClaimOverwrites ==
    [][(CompleteIteration /\ Carries(Taken, SEGMENTATION)) =>
        \A v \in Voxels :
            LET c == global_volume_fractions[v]
                o == Taken.geometrical_volume[v]
                over == Active(c, o) /\ Claimed(c, o) > max_added_fractions[v]
            IN /\ over => /\ volumes'[SEGMENTATION][v] = Taken.seg.scalar
                          /\ max_added_fractions'[v] = Claimed(c, o)
               /\ ~over => /\ volumes'[SEGMENTATION][v] = volumes[SEGMENTATION][v]
                           /\ max_added_fractions'[v] = max_added_fractions[v]
               /\ max_added_fractions'[v] >= max_added_fractions[v]]_vars

\* Two equal claims of voxel 1: the first structure keeps the label.
C10_Witness ==
    /\ pc = "loop"
    /\ Len(processed) = 2
    /\ Labelled = {1, 2}
    /\ ClaimOf(1, 1) = 3 /\ ClaimOf(2, 1) = 3
    /\ mask[1]
    /\ max_added_fractions[1] = 3
    /\ volumes[SEGMENTATION][1] = LabelOf(1)

RECURSIVE OccupancySum(_, _)
\* Sum of the occupancies the first k structures offer to voxel v.
OccupancySum(k, v) ==
    IF k = 0 THEN 0
    ELSE OccupancySum(k - 1, v) + processed[k].geometrical_volume[v]

\* C11: the cumulative occupancy of each voxel is min(1, sum of the
\* occupancies of the structures processed), whatever their order and
\* whichever property keys they carry.
C11_CumulativeIsCappedSum ==
    pc \in {"loop", "returned"} =>
        \A v \in Voxels :
            global_volume_fractions[v] = Min(Scale, OccupancySum(Len(processed), v))

\* Three structures, the second without any property: voxel 1 is offered
\* more than 1 and ends full, voxel 2 is offered less and holds the sum.
C11_Witness ==
    /\ pc = "returned"
    /\ Len(processed) = 3
    /\ ~Carries(processed[2], "mua") /\ ~Carries(processed[2], SEGMENTATION)
    /\ \A k \in 1..3 : processed[k].geometrical_volume[1] = 6
    /\ processed[1].geometrical_volume[2] = 3
    /\ processed[2].geometrical_volume[2] = 3
    /\ processed[3].geometrical_volume[2] = 0
    /\ OccupancySum(3, 1) > Scale
    /\ global_volume_fractions[1] = Scale
    /\ global_volume_fractions[2] = 6

====
